---- MODULE Spec2Model ----
(***************************************************************************)
(* CryptoPulse Monitor (src/cryptopulse_monitor.py): the price acquisition *)
(* engine of class CryptoPulseMonitor.  The model covers the polling loop  *)
(* (monitor_price_loop), one fetch cycle (fetch_and_update_price), the     *)
(* three provider adapters with their internal retry loops, the provider   *)
(* blacklist, the read cache, validation and normalisation of a reading,   *)
(* and the hand-off of a reading to the GUI thread.                        *)
(*                                                                         *)
(* Time is a clock `now` in whole seconds.  A thread that sleeps sets its  *)
(* wake-up time; the clock advances (Tick) to the next wake-up time when   *)
(* no thread can run.  An HTTP request is answered in the step that sends  *)
(* it; what a provider answers is the head of that provider's script in    *)
(* `net`.                                                                  *)
(***************************************************************************)
EXTENDS Integers, Sequences, FiniteSets, TLC

(***************************************************************************)
(* Bounds of the exploration                                               *)
(***************************************************************************)
\* the polling loop starts at most this many iterations that call a fetch cycle
MaxCycles == 6
\* the clock reading when the application starts
StartTime == 1000
\* the readings the engine posts where the GUI thread is taken on its own
MaxReadings == 4
\* the seconds that pass where the GUI thread or the notifier is taken on its own
MaxElapsed == 12
\* the notify calls where the notifier is taken on its own
MaxNotify == 3
\* the presses of the Pause / Start button
MaxToggles == 2
\* the seconds the engine is followed with the user at the window
MaxUserTime == 25
\* the times the settings are saved
MaxSaves == 2

(***************************************************************************)
(* Program constants                                                       *)
(***************************************************************************)
cache_duration == 30
min_api_interval == 10
base_retry_delay == 30
max_retry_delay == 300
max_retries == 3
max_consecutive_errors == 5
max_api_failures == 3
default_blacklist_duration == 300
default_retry_after == 60
max_retry_after_wait == 60
min_target_interval == 10
backoff_base == 30
backoff_cap == 300
backoff_max_exponent == 3
paused_extra_sleep == 2
max_sane_price == 1000000
max_age_seconds == 3600
price_history_hours == 168
min_refresh_interval == 30
max_history_size == 10000
max_future_seconds == 300
min_symbol_len == 2
debounce_seconds == 6
default_alert_history_count == 100

COINGECKO == "coingecko"
BINANCE == "binance"
CRYPTOCOMPARE == "cryptocompare"

\* enum APIProvider
APIProvider == {COINGECKO, BINANCE, CRYPTOCOMPARE}

\* the fixed fallback order of fetch_and_update_price
all_providers == <<COINGECKO, BINANCE, CRYPTOCOMPARE>>

\* the threads that run fetch_and_update_price: the polling worker and a
\* refresh thread
Threads == {"loop", "manual"}

\* absent key of a dict of numbers / Python None of an optional number
NoEntry == -1
NoneNum == -1

Min(a, b) == IF a < b THEN a ELSE b
Max(a, b) == IF a > b THEN a ELSE b
Range(s) == {s[i] : i \in 1..Len(s)}

RECURSIVE Pow2(_)
Pow2(n) == IF n <= 0 THEN 1 ELSE 2 * Pow2(n - 1)

(***************************************************************************)
(* The network: what a provider answers                                    *)
(***************************************************************************)
\* one answer of a provider to one HTTP GET:
\*   ok     200 with a well-formed payload and a sane price
\*   bad    200 with a well-formed payload whose price is beyond the sanity range
\*   h500   a status other than 200 and 429
\*   exc    the request raises (timeout, connection reset, malformed JSON)
\*   r42, r120   429 with Retry-After: 42 / 120
\*   rnone  429 without a Retry-After header
Answers == {"ok", "bad", "h500", "exc", "r42", "r120", "rnone"}

Is429(r) == r \in {"r42", "r120", "rnone"}

\* int(response.headers.get('Retry-After', 60))
RetryAfter(r) ==
    CASE r = "r42" -> 42
      [] r = "r120" -> 120
      [] OTHER -> default_retry_after

\* the price carried by a 200 answer
PriceOf(r) == IF r = "bad" THEN 2 * max_sane_price ELSE 100

\* a script is a non-empty sequence of answers; the last one repeats
Advance(script) == IF Len(script) > 1 THEN Tail(script) ELSE script

SteadyScripts == {<<"ok">>, <<"exc">>, <<"r120">>}
SpecialScripts == {<<"h500">>, <<"bad">>, <<"r42">>, <<"rnone">>,
                   <<"r120", "ok">>, <<"exc", "ok">>, <<"r42", "h500">>}

\* the scenarios explored: every combination of the steady scripts, and every
\* scenario in which one provider follows a special script while the two
\* others share a steady one
NetScenarios ==
    [APIProvider -> SteadyScripts]
    \cup { [q \in APIProvider |-> IF q = p THEN s ELSE b] :
             p \in APIProvider, s \in SpecialScripts, b \in {<<"ok">>, <<"exc">>} }

(***************************************************************************)
(* State                                                                   *)
(***************************************************************************)
VARIABLES
    now,                    \* time.time() / datetime.now(), in seconds
    net,                    \* per provider: the script of its answers
    settings,               \* self.settings (the fields the engine reads)
    is_monitoring,          \* self.is_monitoring
    shutdown_requested,     \* self.shutdown_requested
    monitoring_stop_event,  \* self.monitoring_stop_event.is_set()
    api_failure_count,      \* self.api_failure_count
    last_api_call_time,     \* self.last_api_call_time
    api_provider_blacklist, \* self.api_provider_blacklist: provider -> expiry
    retry_attempts,         \* self.retry_attempts: provider -> count (0: no key)
    cached_price_data,      \* self.cached_price_data: <<>> (None) or <<reading>>
    last_cache_time,        \* self.last_cache_time
    current_price_data,     \* self.current_price_data
    last_price_data,        \* self.last_price_data
    is_first_check,         \* self.is_first_check
    price_history,          \* self.price_history
    gui_queue,              \* readings posted with safe_after(update_price_display)
    connection_status,      \* the last status posted with update_connection_status
    loop_pc,                \* position of the polling worker in monitor_price_loop
    consecutive_errors,     \* local of monitor_price_loop
    loop_start_time,        \* local of monitor_price_loop
    sleep_chunks,           \* interval sleep: iterations left of the chunk loop
    backoff_left,           \* extended backoff: iterations left of the sleep loop
    cycles,                 \* number of fetch cycles the polling loop has started
    pc,                     \* per thread: position in fetch_and_update_price
    current_time,           \* per thread: local current_time of the cycle
    providers,              \* per thread: local providers of the cycle
    idx,                    \* per thread: position of the for loop over providers
    attempt,                \* per thread: adapter local attempt
    url_idx,                \* per thread: Binance adapter, position in urls
    price_data,             \* per thread: result of fetch_price_from_provider
    wake,                   \* per thread: end of the current time.sleep
    cycle_result,           \* per thread: how the last cycle ended
    requests,               \* per thread: HTTP requests sent in the cycle
    attempted,              \* per thread: providers handed to fetch_price_from_provider
    forwarded,              \* per thread: readings posted to the GUI in the cycle
    reports,                \* per thread and provider: failures of the provider recorded
                            \*   in the cycle (blacklist_provider calls, retry_attempts += 1)
    fail_streak,            \* per provider: failed attempts since its last success
    was_excluded,           \* providers some cycle left out of its list as blacklisted
    probe,                  \* input and result of a function applied on its own
    alert_config,           \* self.settings['alert_config']
    enable_notifications,   \* self.settings['enable_notifications']
    alert_history_count,    \* self.settings['data_retention']['alert_history_count']
    alerts_history,         \* self.alerts_history
    alerts_listbox,         \* the rows of self.alerts_listbox, newest first
    last_ts,                \* NotificationManager._last_ts
    win10toast,             \* NotificationManager.win10toast is set (Windows only)
    notifications_available,\* NOTIFICATIONS_AVAILABLE: plyer could be imported
    workers,                \* the _worker threads started by notify
    notify_log              \* the notify calls so far: when, and whether debounced

net_vars == <<net>>
flag_vars == <<is_monitoring, shutdown_requested, monitoring_stop_event>>
rate_vars == <<api_provider_blacklist, retry_attempts, was_excluded>>
cache_vars == <<cached_price_data, last_cache_time>>
alert_vars == <<alert_config, enable_notifications, alert_history_count,
                alerts_history, alerts_listbox>>
notify_vars == <<last_ts, win10toast, notifications_available, workers, notify_log>>
gui_vars == <<current_price_data, last_price_data, is_first_check, price_history,
              alert_vars,
              notify_vars>>
loop_vars == <<loop_pc, consecutive_errors, loop_start_time, sleep_chunks,
               backoff_left, cycles>>
frame_vars == <<pc, current_time, providers, idx, attempt, url_idx, price_data>>
ghost_vars == <<cycle_result, requests, attempted, forwarded, reports,
                fail_streak>>

vars == <<now, net, settings, is_monitoring, shutdown_requested,
          monitoring_stop_event, api_failure_count, last_api_call_time,
          api_provider_blacklist, retry_attempts, cached_price_data,
          last_cache_time, current_price_data, last_price_data, is_first_check,
          price_history,
          gui_queue, connection_status, loop_pc, consecutive_errors,
          loop_start_time, sleep_chunks, backoff_left, cycles, pc, current_time,
          providers, idx, attempt, url_idx, price_data, wake, cycle_result,
          requests, attempted, forwarded, reports, fail_streak, was_excluded,
          probe, alert_config, enable_notifications, alert_history_count,
          alerts_history, alerts_listbox, last_ts, win10toast,
          notifications_available, workers, notify_log>>

(***************************************************************************)
(* Rate limiting and provider blacklist                                    *)
(***************************************************************************)
\* a blacklist entry that never lapses
is_provider_blacklisted_forever(bl, p, t) == bl[p] # NoEntry

\* is_provider_blacklisted: the value it returns at time t
is_provider_blacklisted(bl, p, t) == bl[p] # NoEntry /\ t < bl[p]

\* is_provider_blacklisted: the dict after the call (an expired entry is deleted)
EvictExpired(bl, p, t) ==
    IF bl[p] # NoEntry /\ ~(t < bl[p]) THEN [bl EXCEPT ![p] = NoEntry] ELSE bl

RECURSIVE EvictAll(_, _, _)
EvictAll(bl, ps, t) ==
    IF ps = <<>> THEN bl ELSE EvictAll(EvictExpired(bl, Head(ps), t), Tail(ps), t)

\* blacklist_provider(provider, duration) called at time t
blacklist_provider(bl, p, duration, t) == [bl EXCEPT ![p] = t + duration]

\* a success that leaves the retry bookkeeping in place
ResetRetryAttempts_skipped(ra, p) == ra

\* `del self.retry_attempts[provider.value]` of an adapter's success branch
ResetRetryAttempts(ra, p) == [ra EXCEPT ![p] = 0]

\* get_retry_delay(provider)
get_retry_delay(ra, p) == Min(base_retry_delay * Pow2(ra[p]), max_retry_delay)

\* a list that leaves the blacklisted providers in
available_providers_unfiltered(bl, t) == all_providers

\* [p for p in all_providers if not self.is_provider_blacklisted(p)]
available_providers(bl, t) ==
    SelectSeq(all_providers, LAMBDA p : ~is_provider_blacklisted(bl, p, t))

\* the available providers with the primary provider left where it is
OrderedProviders_unsorted(avail, primary) == avail

\* the primary provider first if it is available, then the others in order
OrderedProviders(avail, primary) ==
    IF primary \in Range(avail)
    THEN <<primary>> \o SelectSeq(avail, LAMBDA p : p # primary)
    ELSE avail

\* a cache test without the time to live
CacheFresh_no_ttl(cached, cache_time, t) == cached # <<>>

\* the cache test of fetch_and_update_price
CacheFresh(cached, cache_time, t) ==
    cached # <<>> /\ t - cache_time < cache_duration

(***************************************************************************)
(* Readings                                                                *)
(***************************************************************************)
\* symbol_map of fetch_from_binance_safe, with its default 'BTCUSDT'
BinanceSymbol(crypto) ==
    CASE crypto = "bitcoin" -> "BTCUSDT"
      [] crypto = "binancecoin" -> "BNBUSDT"
      [] OTHER -> "BTCUSDT"

\* symbol_map of fetch_from_cryptocompare_safe ("" stands for None)
CryptoCompareSymbol(crypto) ==
    CASE crypto = "bitcoin" -> "BTC"
      [] crypto = "litecoin" -> "LTC"
      [] OTHER -> ""

CoinGeckoSymbol(crypto) ==
    CASE crypto = "bitcoin" -> "BITCOIN"
      [] crypto = "litecoin" -> "LITECOIN"
      [] crypto = "binancecoin" -> "BINANCECOIN"
      [] OTHER -> "?"

\* the PriceData each adapter builds from a 200 answer r at time t
CoinGeckoReading(r, crypto, t) ==
    [symbol |-> CoinGeckoSymbol(crypto), price |-> PriceOf(r), timestamp |-> t,
     volume_24h |-> 500, market_cap |-> 9000]

BinanceReading(r, crypto, t) ==
    [symbol |-> BinanceSymbol(crypto), price |-> PriceOf(r), timestamp |-> t,
     volume_24h |-> 700, market_cap |-> NoneNum]

CryptoCompareReading(r, crypto, t) ==
    [symbol |-> CryptoCompareSymbol(crypto), price |-> PriceOf(r), timestamp |-> t,
     volume_24h |-> 600, market_cap |-> NoneNum]

\* a validation that lets timestamps from the future through
_validate_price_data_no_future(r, t) ==
    /\ ~(r.price <= 0)
    /\ ~(r.price > max_sane_price \/ r.price < 1)
    /\ ~(r.timestamp < t - max_age_seconds)
    /\ ~(r.symbol = "" \/ Len(r.symbol) < min_symbol_len)

\* _validate_price_data at time t.  Prices are whole numbers here, for which
\* price < 0.000001 is price < 1.
_validate_price_data(r, t) ==
    /\ ~(r.price <= 0)
    /\ ~(r.price > max_sane_price \/ r.price < 1)
    /\ ~(r.timestamp < t - max_age_seconds \/ r.timestamp > t + max_future_seconds)
    /\ ~(r.symbol = "" \/ Len(r.symbol) < min_symbol_len)

\* the value `x or 0.0` of an optional number
OrZero(x) == IF x = NoneNum THEN 0 ELSE x

\* the field of the cached reading, None when there is no cached reading
CachedVolume(cached) == IF cached = <<>> THEN NoneNum ELSE cached[1].volume_24h
CachedMarketCap(cached) == IF cached = <<>> THEN NoneNum ELSE cached[1].market_cap

\* one optional field of _normalize_price_data: the reading's own value; if
\* that is None or <= 0 the cached reading's value when that is truthy, else
\* None; and last float(x or 0.0)
NormalizeField(own, cached_value) ==
    LET filled == IF own = NoneNum \/ own <= 0
                  THEN IF cached_value # NoneNum /\ cached_value # 0
                       THEN cached_value
                       ELSE NoneNum
                  ELSE own
    IN OrZero(filled)

\* _normalize_price_data
_normalize_price_data(r, cached) ==
    [r EXCEPT !.volume_24h = NormalizeField(r.volume_24h, CachedVolume(cached)),
              !.market_cap = NormalizeField(r.market_cap, CachedMarketCap(cached))]

\* lines 2095-2115: the history after add_to_price_history(r) at time t
add_to_price_history(history, r, t) ==
    IF ~_validate_price_data(r, t) THEN history
    ELSE LET Recent(q) == q.timestamp > t - price_history_hours * 3600
             kept == SelectSeq(Append(history, r), Recent)
         IN IF Len(kept) > max_history_size
            THEN SubSeq(kept, Len(kept) - max_history_size + 1, Len(kept))
            ELSE kept

(***************************************************************************)
(* Alerts                                                                  *)
(***************************************************************************)
\* self.settings['alert_config'] as __init__ sets it; thresholds are whole
\* numbers of percent
DefaultAlertConfig ==
    [price_drop |-> [enabled |-> TRUE, threshold |-> 2],
     price_rise |-> [enabled |-> FALSE, threshold |-> 5],
     volume_spike |-> [enabled |-> FALSE, threshold |-> 50]]

Abs(x) == IF x < 0 THEN -x ELSE x

\* an alert check that wants the change to exceed the threshold
check_and_trigger_alerts_strict(last_data, current_data, cfg) ==
    IF last_data.price = 0 THEN <<>>
    ELSE LET num == (current_data.price - last_data.price) * 100
             den == last_data.price
             negative == (num < 0 /\ den > 0) \/ (num > 0 /\ den < 0)
             positive == (num > 0 /\ den > 0) \/ (num < 0 /\ den < 0)
         IN (IF /\ negative
                /\ cfg.price_drop.enabled
                /\ Abs(num) > cfg.price_drop.threshold * Abs(den)
             THEN <<"Price Drop">> ELSE <<>>)
            \o
            (IF /\ positive
                /\ cfg.price_rise.enabled
                /\ Abs(num) > cfg.price_rise.threshold * Abs(den)
             THEN <<"Price Rise">> ELSE <<>>)

\* an alert check that compares across the division and so has no need of,
\* and lacks, the guard against a previous price of zero
check_and_trigger_alerts_unguarded(last_data, current_data, cfg) ==
    LET num == (current_data.price - last_data.price) * 100
        den == last_data.price
    IN (IF /\ num < 0
           /\ cfg.price_drop.enabled
           /\ Abs(num) >= cfg.price_drop.threshold * Abs(den)
        THEN <<"Price Drop">> ELSE <<>>)
       \o
       (IF /\ num > 0
           /\ cfg.price_rise.enabled
           /\ Abs(num) >= cfg.price_rise.threshold * Abs(den)
        THEN <<"Price Rise">> ELSE <<>>)

\* check_and_trigger_alerts: the types of the alerts it triggers, in order.
\* tick_change_percent is num / den; it is compared with the thresholds
\* without rounding.
check_and_trigger_alerts(last_data, current_data, cfg) ==
    IF last_data.price = 0 THEN <<>>
    ELSE LET num == (current_data.price - last_data.price) * 100
             den == last_data.price
             negative == (num < 0 /\ den > 0) \/ (num > 0 /\ den < 0)
             positive == (num > 0 /\ den > 0) \/ (num < 0 /\ den < 0)
         IN (IF /\ negative
                /\ cfg.price_drop.enabled
                /\ Abs(num) >= cfg.price_drop.threshold * Abs(den)
             THEN <<"Price Drop">> ELSE <<>>)
            \o
            (IF /\ positive
                /\ cfg.price_rise.enabled
                /\ Abs(num) >= cfg.price_rise.threshold * Abs(den)
             THEN <<"Price Rise">> ELSE <<>>)

\* line 2061: the test that guards check_and_trigger_alerts
AlertsChecked(first_check, last_data) == ~first_check /\ last_data # <<>>

\* the alert_record trigger_alert builds at time t
AlertRecord(type, current_data, t) ==
    [type |-> type, symbol |-> current_data.symbol, price |-> current_data.price,
     timestamp |-> t]

\* add_alert_to_gui: the new row goes first, rows from max_alerts on are deleted
add_alert_to_gui(box, record, max_alerts) ==
    LET rows == <<record>> \o box
    IN IF Len(rows) > max_alerts THEN SubSeq(rows, 1, Max(max_alerts, 0)) ELSE rows

\* trigger_alert for each of `types` in turn: the history and the list box
RECURSIVE HistoryAfter(_, _, _, _)
HistoryAfter(history, types, current_data, t) ==
    IF types = <<>> THEN history
    ELSE HistoryAfter(Append(history, AlertRecord(Head(types), current_data, t)),
                      Tail(types), current_data, t)

RECURSIVE ListboxAfter(_, _, _, _, _)
ListboxAfter(box, types, current_data, t, max_alerts) ==
    IF types = <<>> THEN box
    ELSE ListboxAfter(add_alert_to_gui(box, AlertRecord(Head(types), current_data, t),
                                       max_alerts),
                      Tail(types), current_data, t, max_alerts)

(***************************************************************************)
(* NotificationManager                                                     *)
(***************************************************************************)
\* a gate that lets every call through
_debounced_never(ts, t) == FALSE

\* _debounced: the value it returns at time t.  Its body runs under
\* self._lock, so the test and the update of _last_ts are one step.
_debounced(ts, t) == t - ts < debounce_seconds

\* the first backend _worker turns to
FirstBackend(toast) == IF toast THEN "toast" ELSE "popup"

\* notify at the current time: a debounced call returns, any other records
\* the time and starts a _worker thread
notify ==
    /\ notify_log' = Append(notify_log,
                            [at |-> now, passed |-> ~_debounced(last_ts, now)])
    /\ IF _debounced(last_ts, now)
       THEN UNCHANGED <<last_ts, workers>>
       ELSE /\ last_ts' = now
            /\ workers' = Append(workers, [pc |-> FirstBackend(win10toast),
                                           invoked |-> <<>>, results |-> <<>>,
                                           outcome |-> "running"])
    /\ UNCHANGED <<win10toast, notifications_available>>

(***************************************************************************)
(* Initial state: CryptoPulseMonitor.__init__ and start_monitoring         *)
(***************************************************************************)
\* settings['refresh_interval'] as loaded from settings.json
RefreshIntervals == {10, 60}
\* settings['cryptocurrency']
Cryptocurrencies == {"bitcoin", "binancecoin"}

NoProbe == [symbol |-> "", price |-> 0, timestamp |-> 0, at |-> 0, result |-> "none"]

InitEngine ==
    /\ now = StartTime
    /\ is_monitoring = TRUE
    /\ shutdown_requested = FALSE
    /\ monitoring_stop_event = FALSE
    /\ api_failure_count = 0
    /\ last_api_call_time = 0
    /\ api_provider_blacklist = [p \in APIProvider |-> NoEntry]
    /\ retry_attempts = [p \in APIProvider |-> 0]
    /\ cached_price_data = <<>>
    /\ last_cache_time = 0
    /\ current_price_data = <<>>
    /\ last_price_data = <<>>
    /\ is_first_check = TRUE
    /\ price_history = <<>>
    /\ gui_queue = <<>>
    /\ connection_status = <<"Connecting", 0>>
    /\ loop_pc = "while"
    /\ consecutive_errors = 0
    /\ loop_start_time = 0
    /\ sleep_chunks = 0
    /\ backoff_left = 0
    /\ cycles = 0
    /\ pc = [t \in Threads |-> "idle"]
    /\ current_time = [t \in Threads |-> 0]
    /\ providers = [t \in Threads |-> <<>>]
    /\ idx = [t \in Threads |-> 0]
    /\ attempt = [t \in Threads |-> 0]
    /\ url_idx = [t \in Threads |-> 0]
    /\ price_data = [t \in Threads |-> <<>>]
    /\ wake = [t \in Threads |-> 0]
    /\ cycle_result = [t \in Threads |-> "none"]
    /\ requests = [t \in Threads |-> 0]
    /\ attempted = [t \in Threads |-> <<>>]
    /\ forwarded = [t \in Threads |-> 0]
    /\ reports = [t \in Threads |-> [p \in APIProvider |-> 0]]
    /\ fail_streak = [p \in APIProvider |-> 0]
    /\ was_excluded = {}
    /\ alerts_history = <<>>
    /\ alerts_listbox = <<>>
    /\ last_ts = 0
    /\ workers = <<>>
    /\ notify_log = <<>>

\* the settings and the platform the alert path reads, as __init__ leaves them
InitAlertSettings ==
    /\ alert_config = DefaultAlertConfig
    /\ enable_notifications = TRUE
    /\ alert_history_count = default_alert_history_count
    /\ win10toast = FALSE
    /\ notifications_available = TRUE

Init ==
    /\ InitEngine
    /\ InitAlertSettings
    /\ net \in NetScenarios
    /\ settings \in [api_provider : APIProvider,
                     refresh_interval : RefreshIntervals,
                     cryptocurrency : Cryptocurrencies]
    /\ probe = NoProbe

(***************************************************************************)
(* One fetch cycle: fetch_and_update_price, run by thread t                *)
(***************************************************************************)
Runnable(t) == wake[t] <= now

\* the provider the for loop of thread t is at
Provider(t) == providers[t][idx[t]]

\* lines 1524-1536: the cache test, and the cycle served from the cache
FetchStart(t) ==
    /\ pc[t] = "start" /\ Runnable(t)
    /\ current_time' = [current_time EXCEPT ![t] = now]
    /\ requests' = [requests EXCEPT ![t] = 0]
    /\ attempted' = [attempted EXCEPT ![t] = <<>>]
    /\ reports' = [reports EXCEPT ![t] = [p \in APIProvider |-> 0]]
    /\ IF CacheFresh(cached_price_data, last_cache_time, now)
       THEN /\ gui_queue' = Append(gui_queue, [kind |-> "cached", data |-> cached_price_data[1]])
            /\ connection_status' = <<"Connected (cached)", 0>>
            /\ forwarded' = [forwarded EXCEPT ![t] = 1]
            /\ cycle_result' = [cycle_result EXCEPT ![t] = "cached"]
            /\ pc' = [pc EXCEPT ![t] = "return"]
       ELSE /\ forwarded' = [forwarded EXCEPT ![t] = 0]
            /\ cycle_result' = [cycle_result EXCEPT ![t] = "running"]
            /\ pc' = [pc EXCEPT ![t] = "rate_limit"]
            /\ UNCHANGED <<gui_queue, connection_status>>
    /\ UNCHANGED <<now, net, settings, flag_vars, api_failure_count,
                   last_api_call_time, rate_vars, cache_vars, gui_vars, loop_vars,
                   providers, idx, attempt, url_idx, price_data, wake,
                   fail_streak, probe>>

\* enforce_rate_limit: sleep until min_api_interval has passed since the last call
enforce_rate_limit(t) ==
    /\ pc[t] \in {"rate_limit", "rate_limited"} /\ Runnable(t)
    /\ IF pc[t] = "rate_limit" /\ now - last_api_call_time < min_api_interval
       THEN /\ wake' = [wake EXCEPT ![t] = now + (min_api_interval - (now - last_api_call_time))]
            /\ pc' = [pc EXCEPT ![t] = "rate_limited"]
            /\ UNCHANGED last_api_call_time
       ELSE /\ last_api_call_time' = now
            /\ pc' = [pc EXCEPT ![t] = "list"]
            /\ UNCHANGED wake
    /\ UNCHANGED <<now, net, settings, flag_vars, api_failure_count, rate_vars,
                   cache_vars, gui_vars, gui_queue, connection_status, loop_vars,
                   current_time, providers, idx, attempt, url_idx, price_data,
                   ghost_vars, probe>>

\* lines 1541-1558: the providers of this cycle
ComputeProviders(t) ==
    /\ pc[t] = "list" /\ Runnable(t)
    /\ LET avail == available_providers(api_provider_blacklist, now) IN
       /\ api_provider_blacklist' = EvictAll(api_provider_blacklist, all_providers, now)
       /\ was_excluded' = was_excluded \cup (APIProvider \ Range(avail))
       /\ IF avail = <<>>
          THEN /\ providers' = [providers EXCEPT ![t] = <<>>]
               /\ connection_status' = <<"All APIs rate limited", 0>>
               /\ cycle_result' = [cycle_result EXCEPT ![t] = "skipped"]
               /\ pc' = [pc EXCEPT ![t] = "return"]
               /\ UNCHANGED idx
          ELSE /\ providers' = [providers EXCEPT ![t] =
                                   OrderedProviders(avail, settings.api_provider)]
               /\ idx' = [idx EXCEPT ![t] = 1]
               /\ pc' = [pc EXCEPT ![t] = "try"]
               /\ UNCHANGED <<connection_status, cycle_result>>
    /\ UNCHANGED <<now, net, settings, flag_vars, api_failure_count,
                   last_api_call_time, retry_attempts, cache_vars,
                   gui_vars, gui_queue, loop_vars, current_time, attempt, url_idx,
                   price_data, wake, requests, attempted, forwarded, reports,
                   fail_streak, probe>>

\* the head of the for loop and fetch_price_from_provider up to the adapter call
TryProvider(t) ==
    /\ pc[t] = "try" /\ Runnable(t)
    /\ idx[t] <= Len(providers[t])
    /\ LET p == Provider(t) IN
       /\ connection_status' = <<"Fetching", 0>>
       /\ attempted' = [attempted EXCEPT ![t] = Append(@, p)]
       /\ api_provider_blacklist' = EvictExpired(api_provider_blacklist, p, now)
       /\ IF \/ is_provider_blacklisted(api_provider_blacklist, p, now)
             \/ (p = CRYPTOCOMPARE /\ CryptoCompareSymbol(settings.cryptocurrency) = "")
          THEN /\ price_data' = [price_data EXCEPT ![t] = <<>>]
               /\ pc' = [pc EXCEPT ![t] = "got"]
               /\ UNCHANGED <<attempt, url_idx>>
          ELSE /\ attempt' = [attempt EXCEPT ![t] = 0]
               /\ url_idx' = [url_idx EXCEPT ![t] = 1]
               /\ pc' = [pc EXCEPT ![t] = "request"]
               /\ UNCHANGED price_data
    /\ UNCHANGED <<now, net, settings, flag_vars, api_failure_count,
                   last_api_call_time, retry_attempts, was_excluded, cache_vars,
                   gui_vars, gui_queue, loop_vars, current_time, providers, idx,
                   wake, cycle_result, requests, forwarded, reports, fail_streak,
                   probe>>

(***************************************************************************)
(* Provider adapters.  Each action is one pass through the body of the     *)
(* adapter's retry loop: one HTTP GET, the handling of its answer, and the *)
(* sleep before the next pass.                                             *)
(***************************************************************************)
\* session.get(...) to provider p: the answer is the head of p's script
Answer(p) == Head(net[p])

Sent(t, p) ==
    /\ net' = [net EXCEPT ![p] = Advance(@)]
    /\ requests' = [requests EXCEPT ![t] = @ + 1]

\* the adapter returns `result` (<<>> is None) to fetch_and_update_price
AdapterReturns(t, result) ==
    /\ price_data' = [price_data EXCEPT ![t] = result]
    /\ pc' = [pc EXCEPT ![t] = "got"]
    /\ UNCHANGED <<attempt, url_idx, wake>>

\* the adapter sleeps d seconds and goes on with pass (a, u) of its loops
AdapterSleeps(t, d, a, u) ==
    /\ wake' = [wake EXCEPT ![t] = now + d]
    /\ attempt' = [attempt EXCEPT ![t] = a]
    /\ url_idx' = [url_idx EXCEPT ![t] = u]
    /\ UNCHANGED <<pc, price_data>>

\* a 429 branch that always blacklists for the default duration
RateLimitedBlacklist_default(bl, p, r, a, t) ==
    blacklist_provider(bl, p, default_blacklist_duration, t)

\* the 429 branch shared by the three adapters: blacklist for Retry-After
\* seconds before a retry, for 300 seconds on the last attempt
RateLimitedBlacklist(bl, p, r, a, t) ==
    IF a < max_retries - 1
    THEN blacklist_provider(bl, p, RetryAfter(r), t)
    ELSE blacklist_provider(bl, p, default_blacklist_duration, t)

\* time.sleep(min(retry_after, 60))
RateLimitedWait(r) == Min(RetryAfter(r), max_retry_after_wait)

AdapterFrame(t) ==
    UNCHANGED <<now, settings, flag_vars, api_failure_count, last_api_call_time,
                was_excluded, cache_vars, gui_vars, gui_queue, connection_status,
                loop_vars, current_time, providers, idx, cycle_result, attempted,
                forwarded, fail_streak, probe>>

\* fetch_from_coingecko_safe, one attempt
fetch_from_coingecko_safe(t) ==
    /\ pc[t] = "request" /\ Runnable(t)
    /\ Provider(t) = COINGECKO
    /\ LET p == COINGECKO
           r == Answer(p)
           a == attempt[t]
           last == ~(a < max_retries - 1)
           raised == r \in {"h500", "exc"} \/ (r \in {"ok", "bad"} /\ PriceOf(r) <= 0)
           \* the except branch: retry_attempts[p] += 1 (after the del of a 200 answer)
           counted == [retry_attempts EXCEPT ![p] =
                          (IF r \in {"ok", "bad"} THEN 0 ELSE @) + 1]
       IN
       /\ Sent(t, p)
       /\ IF Is429(r)
          THEN /\ api_provider_blacklist' =
                      RateLimitedBlacklist(api_provider_blacklist, p, r, a, now)
               /\ reports' = [reports EXCEPT ![t][p] = @ + 1]
               /\ UNCHANGED retry_attempts
               /\ IF last THEN AdapterReturns(t, <<>>)
                          ELSE AdapterSleeps(t, RateLimitedWait(r), a + 1, 1)
          ELSE IF raised
          THEN /\ retry_attempts' = counted
               /\ reports' = [reports EXCEPT ![t][p] = @ + 1]
               /\ UNCHANGED api_provider_blacklist
               /\ IF last THEN AdapterReturns(t, <<>>)
                          ELSE AdapterSleeps(t, get_retry_delay(counted, p), a + 1, 1)
          ELSE /\ retry_attempts' = ResetRetryAttempts(retry_attempts, p)
               /\ UNCHANGED <<api_provider_blacklist, reports>>
               /\ AdapterReturns(t, <<CoinGeckoReading(r, settings.cryptocurrency, now)>>)
    /\ AdapterFrame(t)

\* fetch_from_binance_safe, one URL of one attempt
fetch_from_binance_safe(t) ==
    /\ pc[t] = "request" /\ Runnable(t)
    /\ Provider(t) = BINANCE
    /\ LET p == BINANCE
           r == Answer(p)
           a == attempt[t]
           u == url_idx[t]
           last == ~(a < max_retries - 1)
           last_url == u >= 2
           \* `continue` after sleeping d: the next URL, or, after the last URL,
           \* the sleep between attempts and the next attempt, or the end
           Continue(d) ==
               IF ~last_url THEN AdapterSleeps(t, d, a, u + 1)
               ELSE IF ~last
               THEN AdapterSleeps(t, d + get_retry_delay(retry_attempts', p), a + 1, 1)
               ELSE AdapterReturns(t, <<>>)
       IN
       /\ Sent(t, p)
       /\ IF Is429(r)
          THEN /\ api_provider_blacklist' =
                      RateLimitedBlacklist(api_provider_blacklist, p, r, a, now)
               /\ reports' = [reports EXCEPT ![t][p] = @ + 1]
               /\ UNCHANGED retry_attempts
               /\ IF last THEN AdapterReturns(t, <<>>)
                          ELSE Continue(RateLimitedWait(r))
          ELSE IF r = "h500"
          THEN /\ UNCHANGED <<api_provider_blacklist, reports,
                              retry_attempts>>
               /\ IF last THEN AdapterReturns(t, <<>>)
                          ELSE Continue(get_retry_delay(retry_attempts, p))
          ELSE IF r = "exc"
          THEN /\ UNCHANGED <<api_provider_blacklist, reports,
                              retry_attempts>>
               /\ Continue(0)
          ELSE /\ retry_attempts' = ResetRetryAttempts(retry_attempts, p)
               /\ UNCHANGED <<api_provider_blacklist, reports>>
               /\ AdapterReturns(t, <<BinanceReading(r, settings.cryptocurrency, now)>>)
    /\ AdapterFrame(t)

\* fetch_from_cryptocompare_safe, one attempt
fetch_from_cryptocompare_safe(t) ==
    /\ pc[t] = "request" /\ Runnable(t)
    /\ Provider(t) = CRYPTOCOMPARE
    /\ LET p == CRYPTOCOMPARE
           r == Answer(p)
           a == attempt[t]
           last == ~(a < max_retries - 1)
           failed == r \in {"h500", "exc"} \/ (r \in {"ok", "bad"} /\ PriceOf(r) <= 0)
       IN
       /\ Sent(t, p)
       /\ IF Is429(r)
          THEN /\ api_provider_blacklist' =
                      RateLimitedBlacklist(api_provider_blacklist, p, r, a, now)
               /\ reports' = [reports EXCEPT ![t][p] = @ + 1]
               /\ UNCHANGED retry_attempts
               /\ IF last THEN AdapterReturns(t, <<>>)
                          ELSE AdapterSleeps(t, RateLimitedWait(r), a + 1, 1)
          ELSE IF failed
          THEN /\ UNCHANGED <<api_provider_blacklist, reports,
                              retry_attempts>>
               /\ IF last THEN AdapterReturns(t, <<>>)
                          ELSE AdapterSleeps(t, get_retry_delay(retry_attempts, p), a + 1, 1)
          ELSE /\ retry_attempts' = ResetRetryAttempts(retry_attempts, p)
               /\ UNCHANGED <<api_provider_blacklist, reports>>
               /\ AdapterReturns(t, <<CryptoCompareReading(r, settings.cryptocurrency, now)>>)
    /\ AdapterFrame(t)

(***************************************************************************)
(* fetch_and_update_price, after fetch_price_from_provider has returned    *)
(***************************************************************************)
\* a reading taken without validation
Accepted_unvalidated(result, t) == result # <<>>

\* a reading taken when its price is positive, whatever its size
Accepted_any_price(result, t) == result # <<>> /\ result[1].price > 0

\* line 1571: `price_data and self._validate_price_data(price_data)`
Accepted(result, t) == result # <<>> /\ _validate_price_data(result[1], t)

\* lines 1572-1590: the success branch
ProviderSucceeded(t) ==
    /\ pc[t] = "got" /\ Runnable(t)
    /\ Accepted(price_data[t], now)
    /\ LET normalized == _normalize_price_data(price_data[t][1], cached_price_data) IN
       /\ api_failure_count' = 0
       /\ cached_price_data' = <<normalized>>
       /\ last_cache_time' = current_time[t]
       /\ gui_queue' = Append(gui_queue, [kind |-> "reading", data |-> normalized])
    /\ connection_status' = <<"Connected", 0>>
    /\ forwarded' = [forwarded EXCEPT ![t] = @ + 1]
    /\ cycle_result' = [cycle_result EXCEPT ![t] = "success"]
    /\ fail_streak' = [fail_streak EXCEPT ![Provider(t)] = 0]
    /\ pc' = [pc EXCEPT ![t] = "return"]
    /\ UNCHANGED <<now, net, settings, flag_vars, last_api_call_time, rate_vars,
                   gui_vars, loop_vars, current_time, providers, idx, attempt,
                   url_idx, price_data, wake, requests, attempted, reports, probe>>

\* the provider gave no reading, or one that fails validation: next provider
ProviderFailed(t) ==
    /\ pc[t] = "got" /\ Runnable(t)
    /\ ~Accepted(price_data[t], now)
    /\ idx' = [idx EXCEPT ![t] = @ + 1]
    /\ fail_streak' = [fail_streak EXCEPT ![Provider(t)] = Min(@ + 1, max_api_failures)]
    /\ pc' = [pc EXCEPT ![t] = "try"]
    /\ UNCHANGED <<now, net, settings, flag_vars, api_failure_count,
                   last_api_call_time, rate_vars, cache_vars, gui_vars, gui_queue,
                   connection_status, loop_vars, current_time, providers, attempt,
                   url_idx, price_data, wake, cycle_result, requests, attempted,
                   forwarded, reports, probe>>

\* lines 1597-1605: the for loop is exhausted
AllProvidersFailed(t) ==
    /\ pc[t] = "try" /\ Runnable(t)
    /\ idx[t] > Len(providers[t])
    /\ api_failure_count' = api_failure_count + 1
    /\ connection_status' = <<"All APIs Failed", api_failure_count'>>
    /\ pc' = [pc EXCEPT ![t] = "except"]
    /\ UNCHANGED <<now, net, settings, flag_vars, last_api_call_time, rate_vars,
                   cache_vars, gui_vars, gui_queue, loop_vars, current_time,
                   providers, idx, attempt, url_idx, price_data, wake, ghost_vars,
                   probe>>

\* lines 1607-1610: the outer except counts the failure again and re-raises
FetchExcept(t) ==
    /\ pc[t] = "except" /\ Runnable(t)
    /\ api_failure_count' = api_failure_count + 1
    /\ cycle_result' = [cycle_result EXCEPT ![t] = "raised"]
    /\ pc' = [pc EXCEPT ![t] = "raised"]
    /\ UNCHANGED <<now, net, settings, flag_vars, last_api_call_time, rate_vars,
                   cache_vars, gui_vars, gui_queue, connection_status, loop_vars,
                   current_time, providers, idx, attempt, url_idx, price_data, wake,
                   requests, attempted, forwarded, reports, fail_streak, probe>>

(***************************************************************************)
(* The polling worker: monitor_price_loop                                  *)
(***************************************************************************)
LoopFrame ==
    UNCHANGED <<now, net, settings, flag_vars, api_failure_count,
                last_api_call_time, rate_vars, cache_vars, gui_vars, gui_queue,
                current_time, providers, idx, attempt, url_idx, price_data,
                ghost_vars, probe>>

\* line 1450: the while test
LoopWhile ==
    /\ loop_pc = "while" /\ Runnable("loop")
    /\ IF shutdown_requested \/ monitoring_stop_event
       THEN /\ loop_pc' = "stopped"
            /\ UNCHANGED loop_start_time
       ELSE /\ loop_pc' = "body"
            /\ loop_start_time' = now
    /\ UNCHANGED <<consecutive_errors, sleep_chunks, backoff_left, cycles, pc, wake,
                   connection_status>>
    /\ LoopFrame

\* lines 1454-1456: monitoring is on, call fetch_and_update_price
LoopFetch ==
    /\ loop_pc = "body" /\ Runnable("loop")
    /\ is_monitoring
    /\ cycles < MaxCycles
    /\ cycles' = cycles + 1
    /\ pc' = [pc EXCEPT !["loop"] = "start"]
    /\ loop_pc' = "fetching"
    /\ UNCHANGED <<consecutive_errors, loop_start_time, sleep_chunks, backoff_left,
                   wake, connection_status>>
    /\ LoopFrame

\* lines 1465-1468: monitoring is paused
LoopPaused ==
    /\ loop_pc = "body" /\ Runnable("loop")
    /\ ~is_monitoring
    /\ connection_status' = <<"Monitoring Paused", 0>>
    /\ loop_pc' = "interval"
    /\ UNCHANGED <<consecutive_errors, loop_start_time, sleep_chunks, backoff_left,
                   cycles, pc, wake>>
    /\ LoopFrame

\* lines 1458-1463: the cycle returned
LoopFetchReturned ==
    /\ loop_pc = "fetching" /\ pc["loop"] = "return" /\ Runnable("loop")
    /\ consecutive_errors' = 0
    /\ pc' = [pc EXCEPT !["loop"] = "idle"]
    /\ loop_pc' = "interval"
    /\ UNCHANGED <<loop_start_time, sleep_chunks, backoff_left, cycles, wake,
                   connection_status>>
    /\ LoopFrame

\* a backoff computed from the error count instead of its excess over the
\* ceiling
backoff_time_from_count(errors) ==
    Min(backoff_cap, backoff_base * Pow2(Min(errors, backoff_max_exponent)))

\* line 1479
backoff_time(errors) ==
    Min(backoff_cap,
        backoff_base * Pow2(Min(errors - max_consecutive_errors, backoff_max_exponent)))

\* lines 1470-1496: the cycle raised
LoopFetchRaised ==
    /\ loop_pc = "fetching" /\ pc["loop"] = "raised" /\ Runnable("loop")
    /\ consecutive_errors' = consecutive_errors + 1
    /\ pc' = [pc EXCEPT !["loop"] = "idle"]
    /\ IF consecutive_errors' >= max_consecutive_errors
       THEN /\ connection_status' = <<"Extended Backoff", backoff_time(consecutive_errors')>>
            /\ backoff_left' = backoff_time(consecutive_errors')
            /\ loop_pc' = "backoff"
       ELSE /\ connection_status' = <<"Retry", consecutive_errors'>>
            /\ loop_pc' = "interval"
            /\ UNCHANGED backoff_left
    /\ UNCHANGED <<loop_start_time, sleep_chunks, cycles, wake>>
    /\ LoopFrame

\* lines 1487-1490: one second of the extended backoff
BackoffSleep ==
    /\ loop_pc = "backoff" /\ Runnable("loop")
    /\ backoff_left > 0 /\ ~shutdown_requested
    /\ backoff_left' = backoff_left - 1
    /\ wake' = [wake EXCEPT !["loop"] = now + 1]
    /\ UNCHANGED <<loop_pc, consecutive_errors, loop_start_time, sleep_chunks, cycles,
                   pc, connection_status>>
    /\ LoopFrame

\* a backoff loop that ends without resetting the error counter
BackoffEnd_keeps_count ==
    /\ loop_pc = "backoff" /\ Runnable("loop")
    /\ backoff_left = 0 \/ shutdown_requested
    /\ backoff_left' = 0
    /\ loop_pc' = "interval"
    /\ UNCHANGED <<consecutive_errors, loop_start_time, sleep_chunks, cycles, pc, wake,
                   connection_status>>
    /\ LoopFrame

\* lines 1487-1492: the backoff loop ends or is cut short by shutdown
BackoffEnd ==
    /\ loop_pc = "backoff" /\ Runnable("loop")
    /\ backoff_left = 0 \/ shutdown_requested
    /\ consecutive_errors' = 0
    /\ backoff_left' = 0
    /\ loop_pc' = "interval"
    /\ UNCHANGED <<loop_start_time, sleep_chunks, cycles, pc, wake, connection_status>>
    /\ LoopFrame

\* lines 1498-1507: the remainder of the refresh interval
IntervalStart ==
    /\ loop_pc = "interval" /\ Runnable("loop")
    /\ LET target_interval == Max(min_target_interval, settings.refresh_interval)
           remaining_sleep == target_interval - (now - loop_start_time)
       IN IF remaining_sleep > 0
          THEN /\ sleep_chunks' = Max(1, remaining_sleep)
               /\ loop_pc' = "chunk"
          ELSE /\ sleep_chunks' = 0
               /\ loop_pc' = "while"
    /\ UNCHANGED <<consecutive_errors, loop_start_time, backoff_left, cycles, pc, wake,
                   connection_status>>
    /\ LoopFrame

\* lines 1508-1513: one chunk of the interval sleep
ChunkSleep ==
    /\ loop_pc = "chunk" /\ Runnable("loop")
    /\ sleep_chunks > 0 /\ ~shutdown_requested
    /\ wake' = [wake EXCEPT !["loop"] = now + 1]
    /\ loop_pc' = "chunk_slept"
    /\ UNCHANGED <<consecutive_errors, loop_start_time, sleep_chunks, backoff_left,
                   cycles, pc, connection_status>>
    /\ LoopFrame

\* lines 1515-1517: sleep two more seconds when paused
ChunkPausedCheck ==
    /\ loop_pc = "chunk_slept" /\ Runnable("loop")
    /\ wake' = [wake EXCEPT !["loop"] =
                   IF is_monitoring THEN @ ELSE now + paused_extra_sleep]
    /\ sleep_chunks' = sleep_chunks - 1
    /\ loop_pc' = "chunk"
    /\ UNCHANGED <<consecutive_errors, loop_start_time, backoff_left, cycles, pc,
                   connection_status>>
    /\ LoopFrame

\* the chunk loop ends or is cut short by shutdown
ChunkEnd ==
    /\ loop_pc = "chunk" /\ Runnable("loop")
    /\ sleep_chunks = 0 \/ shutdown_requested
    /\ sleep_chunks' = 0
    /\ loop_pc' = "while"
    /\ UNCHANGED <<consecutive_errors, loop_start_time, backoff_left, cycles, pc, wake,
                   connection_status>>
    /\ LoopFrame

(***************************************************************************)
(* The GUI thread and the clock                                            *)
(***************************************************************************)
\* update_price_display, run by the GUI thread for a posted reading.  The
\* callback of a cycle served from the cache reads self.cached_price_data
\* when it runs.
update_price_display ==
    /\ gui_queue # <<>>
    /\ ~shutdown_requested
    /\ LET e == Head(gui_queue)
           r == IF e.kind = "cached" THEN cached_price_data[1] ELSE e.data
           \* lines 2061-2062, and trigger_alert for each alert
           alerts == IF AlertsChecked(is_first_check, current_price_data)
                     THEN check_and_trigger_alerts(current_price_data[1], r, alert_config)
                     ELSE <<>>
       IN /\ last_price_data' = current_price_data
          /\ current_price_data' = <<r>>
          /\ price_history' = add_to_price_history(price_history, r, now)
          /\ alerts_history' = HistoryAfter(alerts_history, alerts, r, now)
          /\ alerts_listbox' = ListboxAfter(alerts_listbox, alerts, r, now,
                                            alert_history_count)
          /\ IF alerts # <<>> /\ enable_notifications
             THEN notify
             ELSE UNCHANGED notify_vars
    /\ is_first_check' = FALSE
    /\ gui_queue' = Tail(gui_queue)
    /\ UNCHANGED <<alert_config, enable_notifications, alert_history_count>>
    /\ UNCHANGED <<now, net, settings, flag_vars, api_failure_count,
                   last_api_call_time, rate_vars, cache_vars, connection_status,
                   loop_vars, frame_vars, wake, ghost_vars, probe>>

\* quit_application: the shutdown flags
quit_application ==
    /\ ~shutdown_requested
    /\ shutdown_requested' = TRUE
    /\ is_monitoring' = FALSE
    /\ monitoring_stop_event' = TRUE
    /\ UNCHANGED <<now, net, settings, api_failure_count, last_api_call_time,
                   rate_vars, cache_vars, gui_vars, gui_queue, connection_status,
                   loop_vars, frame_vars, wake, ghost_vars, probe>>

\* the threads that exist and have not ended
Active(t) == IF t = "loop" THEN loop_pc # "stopped" ELSE pc[t] # "idle"

\* every thread sleeps: the clock advances to the first wake-up time
Tick ==
    /\ \E t \in Threads : Active(t)
    /\ \A t \in Threads : Active(t) => ~Runnable(t)
    /\ gui_queue = <<>> \/ shutdown_requested
    /\ \E t \in Threads :
          /\ Active(t)
          /\ \A u \in Threads : Active(u) => wake[t] <= wake[u]
          /\ now' = wake[t]
    /\ UNCHANGED <<net, settings, flag_vars, api_failure_count, last_api_call_time,
                   rate_vars, cache_vars, gui_vars, gui_queue, connection_status,
                   loop_vars, frame_vars, wake, ghost_vars, probe>>

Fetch(t) ==
    \/ FetchStart(t)
    \/ enforce_rate_limit(t)
    \/ ComputeProviders(t)
    \/ TryProvider(t)
    \/ fetch_from_coingecko_safe(t)
    \/ fetch_from_binance_safe(t)
    \/ fetch_from_cryptocompare_safe(t)
    \/ ProviderSucceeded(t)
    \/ ProviderFailed(t)
    \/ AllProvidersFailed(t)
    \/ FetchExcept(t)

monitor_price_loop ==
    \/ LoopWhile
    \/ LoopFetch
    \/ LoopPaused
    \/ LoopFetchReturned
    \/ LoopFetchRaised
    \/ BackoffSleep
    \/ BackoffEnd
    \/ IntervalStart
    \/ ChunkSleep
    \/ ChunkPausedCheck
    \/ ChunkEnd

Next ==
    \/ monitor_price_loop
    \/ Fetch("loop")
    \/ update_price_display
    \/ quit_application
    \/ Tick

Spec == Init /\ [][Next]_vars

(***************************************************************************)
(* _validate_price_data on its own: a reading `probe` is validated at time *)
(* probe.at                                                                *)
(***************************************************************************)
ProbePrices == {-5, 0, 1, 100, max_sane_price, max_sane_price + 1}
ProbeOffsets == {-max_age_seconds - 1, -max_age_seconds, -10, 0,
                 max_future_seconds, max_future_seconds + 1}
ProbeSymbols == {"", "B", "BT", "BTC"}

InitValidate ==
    /\ InitEngine
    /\ InitAlertSettings
    /\ net = [p \in APIProvider |-> <<"ok">>]
    /\ settings = [api_provider |-> COINGECKO, refresh_interval |-> 60,
                   cryptocurrency |-> "bitcoin"]
    /\ probe \in {[symbol |-> s, price |-> x, timestamp |-> StartTime + d,
                   at |-> StartTime, result |-> "none"] :
                     s \in ProbeSymbols, x \in ProbePrices, d \in ProbeOffsets}

ValidateProbe ==
    /\ probe.result = "none"
    /\ probe' = [probe EXCEPT !.result =
                    IF _validate_price_data(
                           [symbol |-> probe.symbol, price |-> probe.price,
                            timestamp |-> probe.timestamp,
                            volume_24h |-> NoneNum, market_cap |-> NoneNum],
                           probe.at)
                    THEN "accepted" ELSE "rejected"]
    /\ UNCHANGED <<now, net, settings, flag_vars, api_failure_count,
                   last_api_call_time, rate_vars, cache_vars, gui_vars, gui_queue,
                   connection_status, loop_vars, frame_vars, wake, ghost_vars>>

NextValidate == ValidateProbe

SpecValidate == InitValidate /\ [][NextValidate]_vars

(***************************************************************************)
(* check_and_trigger_alerts on its own: the rules probe.rules are applied  *)
(* to the readings probe.previous and probe.current                        *)
(***************************************************************************)
\* a reading as update_price_display gets it
TickReading(price, volume, t) ==
    [symbol |-> "BTC", price |-> price, timestamp |-> t, volume_24h |-> volume,
     market_cap |-> 0]

\* settings['alert_config'] with the given switches and drop threshold
AlertConfig(drop, drop_threshold, rise, spike) ==
    [price_drop |-> [enabled |-> drop, threshold |-> drop_threshold],
     price_rise |-> [enabled |-> rise, threshold |-> 5],
     volume_spike |-> [enabled |-> spike, threshold |-> 50]]

AlertConfigs ==
    {AlertConfig(d, th, r, v) : d \in BOOLEAN, th \in {2, 5}, r \in BOOLEAN,
                                v \in BOOLEAN}

ProbePreviousPrices == {0, 50, 100}
ProbeCurrentPrices == {0, 95, 97, 98, 100, 105}
\* <<previous volume, current volume>>; NoneNum is an unknown volume
ProbeVolumes == {<<500, 500>>, <<500, 750>>, <<500, 1000>>, <<NoneNum, 1000>>,
                 <<500, NoneNum>>, <<0, 1000>>}

AlertProbe(previous, current, rules) ==
    [previous |-> previous, current |-> current, rules |-> rules, done |-> FALSE,
     alerts |-> <<>>]

AlertProbes ==
    {AlertProbe(TickReading(a, v[1], StartTime), TickReading(b, v[2], StartTime), c) :
        a \in ProbePreviousPrices, b \in ProbeCurrentPrices, v \in ProbeVolumes,
        c \in AlertConfigs}

\* the engine at rest, for the specifications that apply one part of the
\* program on its own
InitAtRest ==
    /\ InitEngine
    /\ net = [p \in APIProvider |-> <<"ok">>]
    /\ settings = [api_provider |-> COINGECKO, refresh_interval |-> 60,
                   cryptocurrency |-> "bitcoin"]

InitAlertRules ==
    /\ InitAtRest
    /\ InitAlertSettings
    /\ probe \in AlertProbes

ApplyAlertRules ==
    /\ ~probe.done
    /\ probe' = [probe EXCEPT
                    !.done = TRUE,
                    !.alerts = check_and_trigger_alerts(probe.previous, probe.current,
                                                        probe.rules)]
    /\ UNCHANGED <<now, net, settings, flag_vars, api_failure_count,
                   last_api_call_time, rate_vars, cache_vars, gui_vars, gui_queue,
                   connection_status, loop_vars, frame_vars, wake, ghost_vars>>

NextAlertRules == ApplyAlertRules

SpecAlertRules == InitAlertRules /\ [][NextAlertRules]_vars

(***************************************************************************)
(* The GUI thread on its own: the engine is reduced to the readings it     *)
(* posts, and update_price_display takes them.  The notification workers   *)
(* it starts are followed in SpecNotify.                                   *)
(***************************************************************************)
PostedPrices == {94, 97, 100}
ClockSteps == {debounce_seconds}

\* lines 1582-1584: a fetch cycle ends with a valid reading, posted to the GUI
PostReading(price) ==
    /\ cycles < MaxReadings
    /\ cycles' = cycles + 1
    /\ gui_queue' = Append(gui_queue,
                           [kind |-> "reading", data |-> TickReading(price, 500, now)])
    /\ UNCHANGED <<now, net, settings, flag_vars, api_failure_count,
                   last_api_call_time, rate_vars, cache_vars, gui_vars,
                   connection_status, loop_pc, consecutive_errors, loop_start_time,
                   sleep_chunks, backoff_left, frame_vars, wake, ghost_vars, probe>>

\* d seconds pass
TimePasses(d) ==
    /\ now + d <= StartTime + MaxElapsed
    /\ now' = now + d
    /\ UNCHANGED <<net, settings, flag_vars, api_failure_count, last_api_call_time,
                   rate_vars, cache_vars, gui_vars, gui_queue, connection_status,
                   loop_vars, frame_vars, wake, ghost_vars, probe>>

WorkerFrame ==
    UNCHANGED <<now, net, settings, flag_vars, api_failure_count,
                last_api_call_time, rate_vars, cache_vars, current_price_data,
                last_price_data, is_first_check, price_history, alert_vars,
                last_ts, win10toast,
                notifications_available, notify_log, gui_queue, connection_status,
                loop_vars, frame_vars, wake, ghost_vars, probe>>

\* what a backend call that returns (ok) or raises leaves in the results
CallResult(ok) == IF ok THEN "ok" ELSE "raised"

\* a worker that goes on to the message box after a toast that was shown
WorkerToast_falls_through(i, ok) ==
    /\ workers[i].pc = "toast"
    /\ workers' = [workers EXCEPT ![i] =
                      [pc |-> "popup",
                       invoked |-> Append(@.invoked, "win10toast"),
                       results |-> Append(@.results, CallResult(ok)),
                       outcome |-> IF ok THEN "sent" ELSE "running"]]
    /\ WorkerFrame

\* lines 276-288: worker i calls win10toast.show_toast, which returns or raises
WorkerToast(i, ok) ==
    /\ workers[i].pc = "toast"
    /\ workers' = [workers EXCEPT ![i] =
                      [pc |-> IF ok THEN "done" ELSE "popup",
                       invoked |-> Append(@.invoked, "win10toast"),
                       results |-> Append(@.results, CallResult(ok)),
                       outcome |-> IF ok THEN "sent" ELSE "running"]]
    /\ WorkerFrame

\* lines 290-296: worker i calls messagebox.showinfo, which returns or raises
WorkerPopup(i, ok) ==
    /\ workers[i].pc = "popup"
    /\ workers' = [workers EXCEPT ![i] =
                      [pc |-> "done",
                       invoked |-> Append(@.invoked, "tkinter"),
                       results |-> Append(@.results, CallResult(ok)),
                       outcome |-> IF ok THEN "sent" ELSE "failed"]]
    /\ WorkerFrame

\* the probes with a previous price of zero
ZeroProbes(rules) ==
    {AlertProbe(TickReading(0, 500, StartTime), TickReading(b, 500, StartTime), rules) :
        b \in {0, 100}}

InitAlerts ==
    /\ InitAtRest
    /\ alert_config \in {AlertConfig(d, 2, r, FALSE) : d \in BOOLEAN, r \in BOOLEAN}
    /\ enable_notifications \in BOOLEAN
    /\ alert_history_count \in {2, default_alert_history_count}
    /\ win10toast = FALSE
    /\ notifications_available = TRUE
    /\ probe \in ZeroProbes(alert_config)

NextAlerts ==
    \/ \E x \in PostedPrices : PostReading(x)
    \/ update_price_display
    \/ \E d \in ClockSteps : TimePasses(d)
    \/ ApplyAlertRules

SpecAlerts == InitAlerts /\ [][NextAlerts]_vars

(***************************************************************************)
(* NotificationManager on its own: notify is called from any thread at any *)
(* time, and the workers it starts run                                     *)
(***************************************************************************)
NotifyClockSteps == {1, 5}

\* send_notification or safe_notify: some thread calls notifier.notify
NotifyCall ==
    /\ Len(notify_log) < MaxNotify
    /\ notify
    /\ UNCHANGED <<now, net, settings, flag_vars, api_failure_count,
                   last_api_call_time, rate_vars, cache_vars, current_price_data,
                   last_price_data, is_first_check, price_history, alert_vars,
                   gui_queue,
                   connection_status, loop_vars, frame_vars, wake, ghost_vars,
                   probe>>

InitNotify ==
    /\ InitAtRest
    /\ alert_config = DefaultAlertConfig
    /\ enable_notifications = TRUE
    /\ alert_history_count = default_alert_history_count
    /\ win10toast \in BOOLEAN
    /\ notifications_available \in BOOLEAN
    /\ probe = NoProbe

NextNotify ==
    \/ NotifyCall
    \/ \E i \in 1..Len(workers), ok \in BOOLEAN : WorkerToast(i, ok)
    \/ \E i \in 1..Len(workers), ok \in BOOLEAN : WorkerPopup(i, ok)
    \/ \E d \in NotifyClockSteps : TimePasses(d)

SpecNotify == InitNotify /\ [][NextNotify]_vars

(***************************************************************************)
(* The engine with the user at the window: the Pause / Start button and    *)
(* the Refresh button                                                      *)
(***************************************************************************)
\* the 'System' row toggle_monitoring puts in the alerts list
SystemRow(message) == [type |-> "System", message |-> message]

SystemRows(box) == {i \in 1..Len(box) : box[i].type = "System"}

\* lines 2384-2403
toggle_monitoring ==
    /\ ~shutdown_requested
    /\ Cardinality(SystemRows(alerts_listbox)) < MaxToggles
    /\ is_monitoring' = ~is_monitoring
    /\ alerts_listbox' =
          add_alert_to_gui(alerts_listbox,
                           SystemRow(IF is_monitoring' THEN "Monitoring resumed"
                                                       ELSE "Monitoring paused"),
                           alert_history_count)
    /\ UNCHANGED <<now, net, settings, shutdown_requested, monitoring_stop_event,
                   api_failure_count, last_api_call_time, rate_vars, cache_vars,
                   current_price_data, last_price_data, is_first_check,
                   price_history,
                   alert_config, enable_notifications, alert_history_count,
                   alerts_history, notify_vars, gui_queue, connection_status,
                   loop_vars, frame_vars, wake, ghost_vars, probe>>

\* lines 2405-2412: refused while paused, else a thread is started that runs
\* fetch_and_update_price.  The first press of Refresh is followed.
manual_refresh ==
    /\ ~shutdown_requested
    /\ is_monitoring
    /\ pc["manual"] = "idle" /\ cycle_result["manual"] = "none"
    /\ pc' = [pc EXCEPT !["manual"] = "start"]
    /\ wake' = [wake EXCEPT !["manual"] = now]
    /\ UNCHANGED <<now, net, settings, flag_vars, api_failure_count,
                   last_api_call_time, rate_vars, cache_vars, gui_vars, gui_queue,
                   connection_status, loop_vars, current_time, providers, idx,
                   attempt, url_idx, price_data, ghost_vars, probe>>

\* the thread of a manual refresh ends when fetch_and_update_price returns or
\* raises
ManualEnd ==
    /\ pc["manual"] \in {"return", "raised"} /\ Runnable("manual")
    /\ pc' = [pc EXCEPT !["manual"] = "idle"]
    /\ UNCHANGED <<now, net, settings, flag_vars, api_failure_count,
                   last_api_call_time, rate_vars, cache_vars, gui_vars, gui_queue,
                   connection_status, loop_vars, current_time, providers, idx,
                   attempt, url_idx, price_data, wake, ghost_vars, probe>>

\* the clock, followed for MaxUserTime seconds
TickUser == now < StartTime + MaxUserTime /\ Tick

\* the providers answer every request: the primary provider gives each
\* reading, and no cycle fails
InitUser ==
    /\ InitEngine
    /\ InitAlertSettings
    /\ net = [p \in APIProvider |-> <<"ok">>]
    /\ settings = [api_provider |-> COINGECKO, refresh_interval |-> 10,
                   cryptocurrency |-> "bitcoin"]
    /\ probe = NoProbe

\* fetch_and_update_price where every request is answered
FetchAnswered(t) ==
    \/ FetchStart(t)
    \/ enforce_rate_limit(t)
    \/ ComputeProviders(t)
    \/ TryProvider(t)
    \/ fetch_from_coingecko_safe(t)
    \/ ProviderSucceeded(t)

\* monitor_price_loop where no cycle raises
LoopAnswered ==
    \/ LoopWhile
    \/ LoopFetch
    \/ LoopPaused
    \/ LoopFetchReturned
    \/ IntervalStart
    \/ ChunkSleep
    \/ ChunkPausedCheck
    \/ ChunkEnd

NextUser ==
    \/ LoopAnswered
    \/ \E t \in Threads : FetchAnswered(t)
    \/ update_price_display
    \/ quit_application
    \/ toggle_monitoring
    \/ manual_refresh
    \/ ManualEnd
    \/ TickUser

SpecUser == InitUser /\ [][NextUser]_vars

(***************************************************************************)
(* The engine for tracked assets that some provider does not list          *)
(***************************************************************************)
TrackedAssets == {"bitcoin", "binancecoin", "litecoin"}

\* the asset is a key of the symbol_map of provider p (CoinGecko has no map:
\* it is asked for the asset id itself)
InSymbolMap(p, crypto) ==
    CASE p = BINANCE -> crypto \in {"bitcoin", "binancecoin"}
      [] p = CRYPTOCOMPARE -> crypto \in {"bitcoin", "litecoin"}
      [] OTHER -> TRUE

InitAssets ==
    /\ InitEngine
    /\ InitAlertSettings
    /\ net \in [APIProvider -> SteadyScripts]
    /\ settings \in [api_provider : APIProvider,
                     refresh_interval : {10},
                     cryptocurrency : TrackedAssets]
    /\ probe = NoProbe

SpecAssets == InitAssets /\ [][Next]_vars

(***************************************************************************)
(* The engine with one press of the Refresh button, for providers that     *)
(* answer and providers that fail                                          *)
(***************************************************************************)
RefreshScenarios ==
    {[p \in APIProvider |-> <<"ok">>], [p \in APIProvider |-> <<"exc">>]}

InitRefresh ==
    /\ InitEngine
    /\ InitAlertSettings
    /\ net \in RefreshScenarios
    /\ settings = [api_provider |-> COINGECKO, refresh_interval |-> 60,
                   cryptocurrency |-> "bitcoin"]
    /\ probe = NoProbe

NextRefresh ==
    \/ Next
    \/ manual_refresh
    \/ Fetch("manual")
    \/ ManualEnd

SpecRefresh == InitRefresh /\ [][NextRefresh]_vars

(***************************************************************************)
(* The engine with the settings window: the user saves a refresh interval  *)
(* and a tracked asset                                                     *)
(***************************************************************************)
SettingsSaved(box) ==
    {i \in 1..Len(box) : box[i] = SystemRow("Settings updated successfully")}

\* lines 2694-2765, for the interval and the asset typed in; the other fields
\* of the window are left as they are.  An interval below 30 raises
\* ValueError before anything is changed.
save_settings_gui(new_interval, new_crypto) ==
    /\ ~shutdown_requested
    /\ Cardinality(SettingsSaved(alerts_listbox)) < MaxSaves
    /\ IF new_interval < min_refresh_interval
       THEN UNCHANGED <<settings, price_history, is_first_check, alerts_listbox>>
       ELSE /\ settings' = [settings EXCEPT !.refresh_interval = new_interval,
                                            !.cryptocurrency = new_crypto]
            /\ IF settings.cryptocurrency # new_crypto
               THEN price_history' = <<>> /\ is_first_check' = TRUE
               ELSE UNCHANGED <<price_history, is_first_check>>
            /\ alerts_listbox' =
                  add_alert_to_gui(alerts_listbox,
                                   SystemRow("Settings updated successfully"),
                                   alert_history_count)
    /\ UNCHANGED <<now, net, flag_vars, api_failure_count, last_api_call_time,
                   rate_vars, cache_vars, current_price_data, last_price_data,
                   alert_config, enable_notifications, alert_history_count,
                   alerts_history, notify_vars, gui_queue, connection_status,
                   loop_vars, frame_vars, wake, ghost_vars, probe>>

InitSettings ==
    /\ InitEngine
    /\ InitAlertSettings
    /\ net = [p \in APIProvider |-> <<"ok">>]
    /\ settings \in [api_provider : {COINGECKO},
                     refresh_interval : RefreshIntervals,
                     cryptocurrency : Cryptocurrencies]
    /\ probe = NoProbe

NextSettings ==
    \/ LoopAnswered
    \/ FetchAnswered("loop")
    \/ update_price_display
    \/ \E i \in RefreshIntervals \cup {min_refresh_interval}, c \in Cryptocurrencies :
          save_settings_gui(i, c)
    \/ quit_application
    \/ Tick

SpecSettings == InitSettings /\ [][NextSettings]_vars

(***************************************************************************)
(* The engine for a provider whose rate-limit signals change from one      *)
(* answer to the next                                                      *)
(***************************************************************************)
SignalScripts == {<<"r120", "r42">>, <<"r42", "r120">>, <<"rnone", "r42", "ok">>}

InitSignals ==
    /\ InitEngine
    /\ InitAlertSettings
    /\ net \in { [q \in APIProvider |-> IF q = p THEN s ELSE b] :
                   p \in APIProvider, s \in SignalScripts, b \in {<<"ok">>, <<"exc">>} }
    /\ settings \in [api_provider : APIProvider,
                     refresh_interval : {10},
                     cryptocurrency : {"bitcoin"}]
    /\ probe = NoProbe

SpecSignals == InitSignals /\ [][Next]_vars

(***************************************************************************)
(* Properties of the provider list and the blacklist                       *)
(***************************************************************************)
\* the step of thread t that computes the cycle's provider list
ListComputed(t) == pc[t] = "list" /\ pc'[t] # "list"

Expiry(p) == api_provider_blacklist[p]

\* C1: a provider list computed at time `now` never contains a provider whose
\* blacklist expiry is later than `now`, and it contains every provider whose
\* expiry has been reached: the provider comes back by the passing of time
\* alone, nothing un-blacklists it.
C1_ExcludedUntilExpiry ==
    [][\A t \in Threads :
          ListComputed(t) =>
             \A p \in APIProvider :
                /\ (Expiry(p) # NoEntry /\ Expiry(p) > now) =>
                       p \notin Range(providers'[t])
                /\ (Expiry(p) # NoEntry /\ Expiry(p) <= now) =>
                       p \in Range(providers'[t])
      ]_vars

\* a cycle's list holds a provider that an earlier list left out as blacklisted
C1_Witness ==
    \E p \in APIProvider :
       /\ pc["loop"] = "try" /\ idx["loop"] = 1
       /\ p \in was_excluded
       /\ p \in Range(providers["loop"])

\* the place of provider p in the fixed fallback order
FallbackRank(p) == CHOOSE i \in 1..Len(all_providers) : all_providers[i] = p

\* C2: the provider list holds exactly the providers that are not blacklisted,
\* each once; the primary provider is first when it is not blacklisted, and the
\* others follow in the order CoinGecko, Binance, CryptoCompare.
C2_OrderedProviderList ==
    [][\A t \in Threads :
          ListComputed(t) =>
             LET ps == providers'[t]
                 primary == settings.api_provider
                 free == {p \in APIProvider : ~(Expiry(p) # NoEntry /\ now < Expiry(p))}
             IN /\ Range(ps) = free
                /\ Len(ps) = Cardinality(free)
                /\ primary \in free => ps[1] = primary
                /\ \A i, j \in 1..Len(ps) :
                      (i < j /\ ps[i] # primary /\ ps[j] # primary) =>
                          FallbackRank(ps[i]) < FallbackRank(ps[j])
                /\ all_providers = <<COINGECKO, BINANCE, CRYPTOCOMPARE>>
      ]_vars

\* a list of two providers led by a primary provider that is not CoinGecko
C2_Witness ==
    /\ pc["loop"] = "try" /\ idx["loop"] = 1
    /\ Len(providers["loop"]) = 2
    /\ providers["loop"][1] = settings.api_provider
    /\ settings.api_provider # COINGECKO

\* C3: when a provider has failed max_failures (3) times in a row with no
\* success in between, it is blacklisted.
C3_BlacklistedAfterMaxFailures ==
    [][\A p \in APIProvider :
          (fail_streak'[p] >= 3 /\ fail_streak'[p] # fail_streak[p]) =>
              is_provider_blacklisted(api_provider_blacklist', p, now')
      ]_vars

\* the step in which the adapter of thread t gets a reading from its provider
AdapterSucceeded(t) ==
    pc[t] = "request" /\ pc'[t] = "got" /\ price_data'[t] # <<>>

\* the step in which the cycle of thread t accepts a provider's reading
CycleSucceeded(t) == pc[t] = "got" /\ pc'[t] = "return"

\* C4: a provider's success clears its retry (backoff) bookkeeping and sets the
\* failure counter to zero, and leaves every blacklist entry as it was, an
\* unexpired entry of the provider itself included.
C4_SuccessKeepsBlacklist ==
    [][\A t \in Threads :
          /\ AdapterSucceeded(t) =>
                /\ retry_attempts'[Provider(t)] = 0
                /\ api_provider_blacklist' = api_provider_blacklist
          /\ CycleSucceeded(t) =>
                /\ api_failure_count' = 0
                /\ retry_attempts'[Provider(t)] = 0
                /\ api_provider_blacklist' = api_provider_blacklist
      ]_vars

\* a cycle has succeeded with a provider whose blacklist entry has not expired
C4_Witness ==
    \E t \in Threads :
       /\ pc[t] = "return" /\ cycle_result[t] = "success"
       /\ Expiry(Provider(t)) > now
       /\ retry_attempts[Provider(t)] = 0
       /\ api_failure_count = 0

\* the step in which the adapter of thread t gets a 429 answer
RateLimited(t) ==
    /\ pc[t] = "request"
    /\ requests'[t] = requests[t] + 1
    /\ Is429(Answer(Provider(t)))

\* the Retry-After seconds of answer r, 60 when the header is missing
SignalledDelay(r) ==
    CASE r = "r42" -> 42
      [] r = "r120" -> 120
      [] OTHER -> 60

C6_ValidationRejects ==
    probe.result # "none" =>
        ((\/ probe.price <= 0
          \/ probe.timestamp < probe.at - 3600
          \/ probe.timestamp > probe.at + 300) => probe.result = "rejected")

\* a reading with a good price and symbol is rejected for a timestamp 301
\* seconds ahead
C6_Witness ==
    /\ probe.result = "rejected"
    /\ probe.price = 100 /\ probe.symbol = "BTC"
    /\ probe.timestamp = probe.at + 301

(***************************************************************************)
(* Properties of the fetch cycle and of the polling loop                   *)
(***************************************************************************)
\* the step in which the cycle of thread t is served from the cache
ServedFromCache(t) == pc[t] = "start" /\ pc'[t] = "return"

\* the step in which the polling loop takes the return of its cycle
CycleReturned ==
    loop_pc = "fetching" /\ pc["loop"] = "return" /\ loop_pc' # "fetching"

\* the step in which the polling loop catches the exception of its cycle
CycleRaised ==
    loop_pc = "fetching" /\ pc["loop"] = "raised" /\ loop_pc' # "fetching"

\* C7: a cycle is served from the cache only if there is a cached reading and
\* less than 30 seconds lie between the time recorded for it and the cycle;
\* such a cycle posts the cached reading, sends no request, changes neither
\* blacklist nor retry bookkeeping, and returns: the loop counts it as a
\* success and resets its error counter.
C7_CachedCycle ==
    [][/\ \A t \in Threads :
             /\ ServedFromCache(t) =>
                   /\ cached_price_data # <<>>
                   /\ now - last_cache_time < 30
                   /\ gui_queue' = Append(gui_queue,
                                      [kind |-> "cached", data |-> cached_price_data[1]])
                   /\ pc'[t] = "return"
                   /\ requests'[t] = 0
                   /\ UNCHANGED <<net, api_provider_blacklist, retry_attempts>>
             /\ (pc[t] = "return" /\ cycle_result[t] = "cached") =>
                   /\ requests'[t] = 0
                   /\ UNCHANGED <<net, api_provider_blacklist, retry_attempts>>
       /\ (CycleReturned /\ cycle_result["loop"] = "cached") =>
             /\ consecutive_errors' = 0
             /\ loop_pc' = "interval"
      ]_vars

\* the polling loop has taken a cycle served from the cache as a success
C7_Witness ==
    /\ cycle_result["loop"] = "cached"
    /\ loop_pc = "interval" /\ pc["loop"] = "idle"
    /\ requests["loop"] = 0
    /\ consecutive_errors = 0

\* C8: in a cycle not served from the cache the providers are tried one at a
\* time in the order of the list; a provider is passed over only when it gave
\* no valid reading; the first valid reading ends the cycle: it is written to
\* the cache, the failure counter is set to zero, the reading is posted to the
\* display exactly once, and no later provider is tried.
C8_FirstValidReadingEndsCycle ==
    [][\A t \in Threads :
          /\ attempted'[t] = SubSeq(providers'[t], 1, Len(attempted'[t]))
          /\ Len(attempted'[t]) <= Len(attempted[t]) + 1
          /\ (pc[t] = "got" /\ idx'[t] = idx[t] + 1) =>
                \/ price_data[t] = <<>>
                \/ ~_validate_price_data(price_data[t][1], now)
          /\ CycleSucceeded(t) =>
                LET r == price_data[t][1] IN
                /\ _validate_price_data(r, now)
                /\ cached_price_data' # <<>>
                /\ cached_price_data'[1].price = r.price
                /\ cached_price_data'[1].timestamp = r.timestamp
                /\ cached_price_data'[1].symbol = r.symbol
                /\ api_failure_count' = 0
                /\ gui_queue' = Append(gui_queue,
                                   [kind |-> "reading", data |-> cached_price_data'[1]])
                /\ forwarded'[t] = 1
                /\ attempted'[t] = SubSeq(providers[t], 1, idx[t])
                /\ pc'[t] = "return"
          /\ (pc[t] = "return" /\ cycle_result[t] = "success") =>
                /\ pc'[t] \in {"return", "idle"}
                /\ UNCHANGED <<attempted[t], requests[t], forwarded[t]>>
      ]_vars

\* a cycle has ended with the reading of the second of three listed providers
C8_Witness ==
    \E t \in Threads :
       /\ pc[t] = "return" /\ cycle_result[t] = "success"
       /\ Len(providers[t]) = 3 /\ idx[t] = 2
       /\ attempted[t] = SubSeq(providers[t], 1, 2)
       /\ forwarded[t] = 1
       /\ cached_price_data # <<>>

\* how often provider p was tried in the cycle of thread t
Attempts(t, p) == Cardinality({i \in 1..Len(attempted[t]) : attempted[t][i] = p})

\* C9: when no provider gives a valid reading, each listed provider has been
\* tried exactly once and its failure has been recorded with the rate
\* controller exactly once when the cycle raises.
C9_EachFailureReportedOnce ==
    [][\A t \in Threads :
          (pc[t] = "except" /\ pc'[t] = "raised") =>
             \A p \in Range(providers[t]) :
                /\ Attempts(t, p) = 1
                /\ reports[t][p] = 1
      ]_vars

\* C10: a cycle that raises as the fifth failure in a row puts the loop into
\* the extended backoff and shows the Extended Backoff status; fewer failures
\* in a row show "Retry N/5" and start no backoff.  During the backoff the loop
\* starts no cycle and sends no request; the backoff ends only when its sleep
\* is over or shutdown is requested, and it leaves the error counter at zero.
C10_ExtendedBackoff ==
    [][/\ CycleRaised =>
             IF consecutive_errors + 1 >= 5
             THEN /\ connection_status'[1] = "Extended Backoff"
                  /\ loop_pc' = "backoff"
             ELSE /\ connection_status' = <<"Retry", consecutive_errors + 1>>
                  /\ consecutive_errors' = consecutive_errors + 1
                  /\ loop_pc' = "interval"
       /\ CycleReturned => consecutive_errors' = 0
       /\ (loop_pc # "backoff" /\ loop_pc' = "backoff") =>
             CycleRaised /\ consecutive_errors + 1 >= 5
       /\ loop_pc = "backoff" =>
             /\ pc'["loop"] = "idle"
             /\ cycles' = cycles
             /\ requests'["loop"] = requests["loop"]
             /\ net' = net
       /\ (loop_pc = "backoff" /\ loop_pc' # "backoff") =>
             /\ backoff_left = 0 \/ shutdown_requested
             /\ consecutive_errors' = 0
             /\ loop_pc' = "interval"
      ]_vars

\* the extended backoff has run to its end and the loop is back at its
\* interval sleep with the error counter at zero
C10_Witness ==
    /\ connection_status[1] = "Extended Backoff"
    /\ loop_pc = "interval"
    /\ backoff_left = 0
    /\ consecutive_errors = 0
    /\ cycles = 5
    /\ ~shutdown_requested

(***************************************************************************)
(* Properties of the alert rules                                           *)
(***************************************************************************)
\* how many alerts of the given type the probe has produced
ProbeAlerts(type) ==
    Cardinality({i \in 1..Len(probe.alerts) : probe.alerts[i] = type})

\* the probe with the given prices, drop threshold, and the drop rule enabled
ProbeIs(previous, current, threshold) ==
    /\ probe.done
    /\ probe.previous.price = previous /\ probe.current.price = current
    /\ probe.rules.price_drop.enabled
    /\ probe.rules.price_drop.threshold = threshold

\* C11: for a previous price other than zero, exactly one drop alert is
\* produced when the change (current - previous) / previous * 100 is negative,
\* the drop rule is enabled and the size of the change is at least the drop
\* threshold, and no drop alert otherwise; 100 -> 97 gives one drop alert at
\* threshold 2 and none at threshold 5.
C11_DropAlert ==
    (probe.done /\ probe.previous.price # 0) =>
        LET a == probe.previous.price
            b == probe.current.price
            \* the change is -(a - b) / a * 100, for the a > 0 of the probes
            falls == a > 0 /\ b < a
            due == /\ falls
                   /\ probe.rules.price_drop.enabled
                   /\ (a - b) * 100 >= probe.rules.price_drop.threshold * a
        IN /\ a > 0
           /\ ProbeAlerts("Price Drop") = (IF due THEN 1 ELSE 0)
           /\ ProbeIs(100, 97, 2) => ProbeAlerts("Price Drop") = 1
           /\ ProbeIs(100, 97, 5) => ProbeAlerts("Price Drop") = 0

\* a change of exactly the threshold: 100 -> 98 at threshold 2 has given one
\* drop alert
C11_Witness ==
    /\ ProbeIs(100, 98, 2)
    /\ probe.alerts = <<"Price Drop">>

\* the step in which update_price_display takes a reading
Displayed == gui_queue # <<>> /\ gui_queue' = Tail(gui_queue)

\* C12: the first reading displayed after the start, when there is no previous
\* reading, produces no alert: no alert record, no row, no notification; and
\* no rule produces an alert from a previous reading whose price is 0.
C12_NoAlertWithoutPrevious ==
    [][/\ (Displayed /\ current_price_data = <<>>) =>
             /\ alerts_history' = alerts_history
             /\ alerts_listbox' = alerts_listbox
             /\ notify_log' = notify_log
             /\ workers' = workers
       /\ (probe'.done /\ probe'.previous.price = 0) => probe'.alerts = <<>>
      ]_vars

\* the first reading has been displayed with the drop rule enabled, and the
\* rules have been applied to a previous price of 0 and a current price of 100
\* with the rise rule enabled: no alert
C12_Witness ==
    /\ current_price_data # <<>> /\ last_price_data = <<>>
    /\ alert_config.price_drop.enabled /\ alert_config.price_rise.enabled
    /\ probe.done /\ probe.previous.price = 0 /\ probe.current.price = 100
    /\ alerts_history = <<>> /\ notify_log = <<>>

(***************************************************************************)
(* Properties of the notifier                                              *)
(***************************************************************************)
\* the notify calls that passed the debounce gate
Passed == {i \in 1..Len(notify_log) : notify_log[i].passed}

\* C13: a notify call made less than 6 seconds after a call that passed the
\* debounce gate does not pass it, whichever threads make the calls; the
\* delivery attempts are as many as the calls that passed, so that two calls
\* within one window give exactly one attempt.
C13_Debounce ==
    /\ Len(workers) = Cardinality(Passed)
    /\ \A j \in 1..Len(notify_log) :
          (\E i \in Passed : i < j /\ notify_log[j].at - notify_log[i].at < 6) =>
              j \notin Passed

\* a second call five seconds after the first has started no delivery
C13_Witness ==
    /\ Len(notify_log) = 2
    /\ notify_log[1].passed /\ ~notify_log[2].passed
    /\ notify_log[2].at - notify_log[1].at = 5
    /\ Len(workers) = 1

\* C14: a delivery tries plyer first when desktop notifications are available,
\* win10toast only after plyer failed, and the message box only after every
\* earlier available backend failed.
C14_PlyerFirst ==
    \A i \in 1..Len(workers) :
       LET w == workers[i] IN
       (w.pc = "done" /\ notifications_available) =>
           /\ w.invoked[1] = "plyer"
           /\ \A k \in 2..Len(w.invoked) :
                 /\ w.results[k - 1] = "raised"
                 /\ w.invoked[k] = "tkinter" => k = Len(w.invoked)

\* the backends of this platform in the order _worker has them
BackendOrder ==
    (IF win10toast THEN <<"win10toast">> ELSE <<>>) \o <<"tkinter">>

\* C15: a backend that raises is followed by the next backend; no backend is
\* called after one that succeeded; the message box is the last backend, and
\* when it raises too the delivery ends as failed, with nothing raised to the
\* caller of notify.
C15_BackendFailuresCaught ==
    \A i \in 1..Len(workers) :
       LET w == workers[i]
           n == Len(w.invoked)
       IN /\ n <= Len(BackendOrder)
          /\ w.invoked = SubSeq(BackendOrder, 1, n)
          /\ Len(w.results) = n
          /\ \A k \in 1..(n - 1) : w.results[k] = "raised"
          /\ w.pc \in {"toast", "popup", "done"}
          /\ w.outcome \in {"running", "sent", "failed"}
          /\ w.pc = "done" <=> w.outcome # "running"
          /\ w.outcome = "sent" => w.results[n] = "ok"
          /\ w.outcome = "failed" =>
                /\ n = Len(BackendOrder)
                /\ w.invoked[n] = "tkinter"
                /\ w.results[n] = "raised"
          /\ (w.pc # "done" /\ n > 0) => w.results[n] = "raised"

\* the toast and then the message box have raised: the delivery has failed
C15_Witness ==
    \E i \in 1..Len(workers) :
       /\ workers[i].invoked = <<"win10toast", "tkinter">>
       /\ workers[i].results = <<"raised", "raised">>
       /\ workers[i].outcome = "failed"

(***************************************************************************)
(* Properties of normalization and of shutdown                             *)
(***************************************************************************)
\* what the claim gives an optional field: the provider's own value, else the
\* cached value, else none
OwnOrCached(own, cached_value) == IF own # NoneNum THEN own ELSE cached_value

\* C16: the reading a successful cycle caches has, as volume and as market
\* cap, the value its provider supplied, or the value of the previously
\* cached reading when the provider omitted it, or none when neither has one;
\* its other fields are those the provider supplied.
C16_NormalizationNeverInvents ==
    [][\A t \in Threads :
          CycleSucceeded(t) =>
              LET own == price_data[t][1]
                  normalized == cached_price_data'[1]
              IN /\ normalized.volume_24h =
                       OwnOrCached(own.volume_24h, CachedVolume(cached_price_data))
                 /\ normalized.market_cap =
                       OwnOrCached(own.market_cap, CachedMarketCap(cached_price_data))
                 /\ [normalized EXCEPT !.volume_24h = own.volume_24h,
                                       !.market_cap = own.market_cap] = own]_vars

\* the step in which thread t sends a request to a provider
RequestSent(t) == pc[t] = "request" /\ requests'[t] = requests[t] + 1

\* C17: once quit_application has set the shutdown signal the worker sends no
\* further provider request, each of its sleeps ends within one second, and a
\* stopped polling loop stays stopped.
C17_ShutdownStopsWorker ==
    [][shutdown_requested =>
          /\ \A t \in Threads : ~RequestSent(t)
          /\ \A t \in Threads : Active(t)' => wake'[t] <= now' + 1
          /\ loop_pc = "stopped" => loop_pc' = "stopped"]_vars

(***************************************************************************)
(* Properties of the pause                                                 *)
(***************************************************************************)
\* monitoring is paused: switched off by the button, not by shutdown
Paused == ~is_monitoring /\ ~shutdown_requested

\* the step in which thread t starts fetch_and_update_price
CycleStarted(t) == pc[t] = "idle" /\ pc'[t] = "start"

\* C18: while monitoring is paused neither the polling loop nor a manual
\* refresh starts a fetch cycle and no request is sent to a provider, and
\* the polling loop does not stop.
C18_PausedNoFetch ==
    [][Paused =>
          /\ \A t \in Threads : ~CycleStarted(t) /\ ~RequestSent(t)
          /\ loop_pc' # "stopped"]_vars

(***************************************************************************)
(* Properties of the volume rule and of the alert history                  *)
(***************************************************************************)
\* C19: for known volumes with a previous volume other than zero, one
\* volume-spike alert is produced when the rule is enabled and the rise
\* (current - previous) / previous * 100 of the volume is at least the
\* threshold of the rule, and none otherwise; none when a volume is unknown.
C19_VolumeSpikeAlert ==
    probe.done =>
        LET pv == probe.previous.volume_24h
            cv == probe.current.volume_24h
            known == pv # NoneNum /\ cv # NoneNum
            due == /\ known /\ pv > 0
                   /\ probe.rules.volume_spike.enabled
                   /\ (cv - pv) * 100 >= probe.rules.volume_spike.threshold * pv
        IN (known /\ pv # 0) \/ ~known =>
               ProbeAlerts("Volume Spike") = (IF due THEN 1 ELSE 0)

\* C20: the alert events kept, in the alert history and in the alerts list,
\* are never more than alert_history_count.
C20_BoundedAlertHistory ==
    /\ Len(alerts_history) <= alert_history_count
    /\ Len(alerts_listbox) <= alert_history_count

(***************************************************************************)
(* Properties of the adapters                                              *)
(***************************************************************************)
\* thread t is inside fetch_price_from_provider
AtProvider(t) ==
    \/ pc[t] = "request"
    \/ pc[t] = "try" /\ idx[t] <= Len(providers[t])

\* the step in which fetch_price_from_provider returns to the cycle of thread t
ProviderReturned(t) == AtProvider(t) /\ pc'[t] = "got"

\* C21: for a tracked asset that is not in the symbol map of the provider a
\* cycle is at, the provider gives no reading, is not blacklisted by the
\* attempt and gets no failure counted.
C21_UnsupportedAssetSkipped ==
    [][\A t \in Threads :
          (AtProvider(t) /\ ~InSymbolMap(Provider(t), settings.cryptocurrency)) =>
              /\ ProviderReturned(t) => price_data'[t] = <<>>
              /\ is_provider_blacklisted(api_provider_blacklist', Provider(t), now') =>
                    is_provider_blacklisted(api_provider_blacklist, Provider(t), now)
              /\ retry_attempts'[Provider(t)] = retry_attempts[Provider(t)]]_vars

\* C22: an adapter that gets a 429 answer returns to the cycle at once,
\* without a sleep and a retry of its own, and no request is sent to a
\* provider while it is blacklisted.
C22_NoRetryAfterRateLimit ==
    [][\A t \in Threads :
          /\ RateLimited(t) => pc'[t] = "got" /\ wake'[t] = wake[t]
          /\ RequestSent(t) =>
                ~is_provider_blacklisted(api_provider_blacklist, Provider(t), now)]_vars

(***************************************************************************)
(* Properties of the readings kept                                         *)
(***************************************************************************)
\* the step in which the cycle of thread t turns down the reading its
\* provider returned
ReadingRejected(t) ==
    /\ pc[t] = "got" /\ pc'[t] # "got"
    /\ price_data[t] # <<>>
    /\ ~_validate_price_data(price_data[t][1], now)

\* the readings the program holds: cached, displayed, previous, in the
\* history, and posted to the GUI thread
ReadingsKept ==
    Range(cached_price_data) \cup Range(current_price_data)
        \cup Range(last_price_data) \cup Range(price_history)
        \cup {gui_queue[i].data : i \in 1..Len(gui_queue)}

\* C23: a reading that fails validation is dropped and the cycle goes on to
\* the next provider: the cache, the display, the previous reading, the
\* history and the readings posted to the GUI thread stay as they were; a
\* reading is cached only when it passes validation at that time, and no
\* reading the program holds is outside the sanity range.
C23_RejectedReadingDiscarded ==
    [][/\ \A t \in Threads :
             ReadingRejected(t) =>
                 /\ pc'[t] = "try" /\ idx'[t] = idx[t] + 1
                 /\ UNCHANGED <<cached_price_data, last_cache_time, gui_queue,
                                current_price_data, last_price_data, price_history>>
       /\ cached_price_data' # cached_price_data =>
             _validate_price_data(cached_price_data'[1], now)
       /\ \A r \in ReadingsKept' : r.price >= 1 /\ r.price <= max_sane_price]_vars

\* a reading beyond the sanity range has been turned down, nothing is cached,
\* and the cycle is at its second provider
C23_Witness ==
    \E t \in Threads :
       /\ price_data[t] # <<>> /\ price_data[t][1].price > max_sane_price
       /\ pc[t] = "try" /\ idx[t] = 2
       /\ cached_price_data = <<>> /\ gui_queue = <<>> /\ price_history = <<>>

(***************************************************************************)
(* Properties of a cycle that finds every provider blacklisted             *)
(***************************************************************************)
AllBlacklisted ==
    \A p \in APIProvider : is_provider_blacklisted(api_provider_blacklist, p, now)

\* the step in which the cycle of thread t computes its provider list
ListStep(t) == pc[t] = "list" /\ pc'[t] # "list"

\* C24: a cycle that finds every provider blacklisted when it computes its
\* provider list sends no request, sets the status that all providers are
\* rate limited and returns without an error and without counting a failure;
\* the loop counts it as a success and starts its next cycle no sooner than
\* one refresh interval after it.
C24_AllBlacklistedSkipped ==
    [][/\ \A t \in Threads :
             (ListStep(t) /\ AllBlacklisted) =>
                 /\ pc'[t] = "return"
                 /\ requests'[t] = 0 /\ attempted'[t] = <<>>
                 /\ connection_status' = <<"All APIs rate limited", 0>>
                 /\ api_failure_count' = api_failure_count
                 /\ gui_queue' = gui_queue
       /\ (CycleReturned /\ cycle_result["loop"] = "skipped") =>
             /\ loop_pc' = "interval"
             /\ consecutive_errors' = 0
       /\ (CycleStarted("loop") /\ cycle_result["loop"] = "skipped") =>
             now >= current_time["loop"]
                       + Max(min_target_interval, settings.refresh_interval)]_vars

\* a cycle that found every provider blacklisted has been followed by the
\* start of the next cycle
C24_Witness ==
    /\ cycle_result["loop"] = "skipped"
    /\ pc["loop"] = "start"
    /\ requests["loop"] = 0

(***************************************************************************)
(* Properties of the threads that run a cycle                              *)
(***************************************************************************)
\* the step in which the exception raised by the cycle of thread t leaves
\* fetch_and_update_price
ExceptionLeavesCycle(t) == pc[t] = "raised" /\ pc'[t] # "raised"

\* C25: the exception a cycle raises is caught by the caller of the cycle and
\* counted as a failure: the thread goes on, and the polling loop does not
\* stop because of it.
C25_CycleExceptionCaught ==
    [][\A t \in Threads :
          ExceptionLeavesCycle(t) =>
              /\ t = "loop"
              /\ loop_pc' \in {"backoff", "interval"}
              /\ consecutive_errors' = consecutive_errors + 1]_vars

\* thread t is inside fetch_and_update_price
InCycle(t) == pc[t] \notin {"idle", "return", "raised"}

\* C26: at most one thread is inside fetch_and_update_price at any time.
C26_OneCycleAtATime == Cardinality({t \in Threads : InCycle(t)}) <= 1

(***************************************************************************)
(* Properties of a change of the tracked asset                             *)
(***************************************************************************)
\* the asset a reading was fetched for, from the symbol its adapter gave it
AssetOf(r) ==
    CASE r.symbol \in {"BITCOIN", "BTCUSDT", "BTC"} -> "bitcoin"
      [] r.symbol \in {"BINANCECOIN", "BNBUSDT"} -> "binancecoin"
      [] r.symbol \in {"LITECOIN", "LTC"} -> "litecoin"
      [] OTHER -> "?"

\* C27: a cycle served from the cache forwards a reading of the asset tracked
\* at that time, and update_price_display evaluates the alert rules only for
\* a previous and a current reading of the tracked asset.
C27_AlertsWithinOneAsset ==
    [][/\ \A t \in Threads :
             ServedFromCache(t) =>
                 AssetOf(cached_price_data[1]) = settings.cryptocurrency
       /\ (Displayed /\ AlertsChecked(is_first_check, current_price_data)) =>
             /\ AssetOf(current_price_data[1]) = AssetOf(current_price_data'[1])
             /\ AssetOf(current_price_data'[1]) = settings.cryptocurrency]_vars

(***************************************************************************)
(* Properties of the blacklist expiry and of the extended backoff          *)
(***************************************************************************)
\* C28: while a provider is blacklisted, no step moves the expiry of its
\* blacklist entry to an earlier time.
C28_ExpiryNeverShortened ==
    [][\A p \in APIProvider :
          is_provider_blacklisted(api_provider_blacklist, p, now) =>
              api_provider_blacklist'[p] >= api_provider_blacklist[p]]_vars
\* the step in which the polling loop enters the extended backoff
BackoffEntered == loop_pc # "backoff" /\ loop_pc' = "backoff"

\* C29: the loop enters the extended backoff with its error counter at the
\* ceiling of 5, so the backoff min(300, 30 * 2^(counter - 5)) is 30 seconds
\* at every entry; the backoff is slept one second at a time and, unless
\* shutdown is requested, ends when the 30 seconds are over.
C29_BackoffThirtySeconds ==
    [][/\ BackoffEntered =>
             /\ consecutive_errors' = max_consecutive_errors
             /\ backoff_left' =
                   Min(300, 30 * Pow2(consecutive_errors' - max_consecutive_errors))
             /\ backoff_left' = 30
             /\ connection_status' = <<"Extended Backoff", 30>>
       /\ (loop_pc = "backoff" /\ loop_pc' = "backoff" /\ backoff_left' # backoff_left) =>
             /\ backoff_left' = backoff_left - 1
             /\ wake'["loop"] = now + 1
       /\ (loop_pc = "backoff" /\ loop_pc' # "backoff" /\ ~shutdown_requested) =>
             backoff_left = 0
       /\ loop_pc' = "backoff" => backoff_left' \in 0..30]_vars

\* the thirty seconds of an extended backoff have been slept
C29_Witness ==
    /\ loop_pc = "backoff"
    /\ backoff_left = 0
    /\ connection_status = <<"Extended Backoff", 30>>
    /\ ~shutdown_requested

(***************************************************************************)
(* Properties of the price history                                         *)
(***************************************************************************)
\* the step in which update_price_display takes a reading served from the
\* cache
CachedDisplayed == Displayed /\ Head(gui_queue).kind = "cached"

\* C30: the display of a reading served from the cache adds no entry to the
\* price history and leaves the reading the next alert evaluation compares
\* against as it was; the display of a fetched reading adds at most one
\* entry, and the history has at most 10000 entries.
C30_HistoryOncePerReading ==
    [][/\ CachedDisplayed =>
             /\ price_history' = price_history
             /\ current_price_data' = current_price_data
       /\ (Displayed /\ ~CachedDisplayed) =>
             Len(price_history') <= Len(price_history) + 1
       /\ Len(price_history') <= 10000]_vars

====
